---- MODULE Spec2Model ----
(***************************************************************************)
(* The recurring-task engine of package regular (src/regular/regular.go):  *)
(* the Engine's configuration cell (SetConfig / GetConfig), the lifecycle  *)
(* (Start / Shutdown), the per-minute polling loop over the configured     *)
(* time periods, the run loop that repeats the task, and CheckTime.        *)
(*                                                                         *)
(* The goroutines are: the caller (SetConfig, Shutdown, cancelling the     *)
(* context it gave to Start), the goroutine inside Start, and one          *)
(* goroutine per launched period.  One call of Start is in progress at a   *)
(* time, except in SpecAgain, where Start is called again after Shutdown   *)
(* while the earlier call has not returned yet.                            *)
(***************************************************************************)
EXTENDS Integers, Sequences, FiniteSets, TLC

VARIABLES
    cfg,                 \* e.cfg, the installed *Config
    stopCh,              \* e.stopCh: "nil", "open" or "closed"
    cancel,              \* e.cancel: 0 (nil) or the context it cancels
    ctxs,                \* the contexts: ctxs[i] = [parent, cancelled, period]
    pc,                  \* where the goroutine inside Start stands
    ctx,                 \* Start's variable ctx (line 128 reassigns it)
    currentStartHour,    \* Start's local, line 108
    currentStartMinute,  \* Start's local, line 108
    hour,                \* Start's local hour, line 115
    minute,              \* Start's local minute, line 116
    runs,                \* the calls of e.run, in the order they were made
    ret,                 \* what the last Start returned
    panicked,            \* a call of Shutdown has panicked
    setRet,              \* what the last SetConfig returned, and whether Start
                         \* was in its polling loop then
    installs,            \* number of Configs SetConfig has installed
    calls,               \* task invocations of the e.run of line 105
    fails,               \* those that returned an error
    sleeps,              \* the sleeps of the e.run of line 105, in ms
    starts,              \* number of calls of Start
    unlocked,            \* the last step read e.cfg without holding e.m
    ctArgs,              \* the six arguments of a call of CheckTime
    ctOut,               \* what that call returned: <<>> before it returns
    other                \* a second call of Start in progress: its position
                         \* and its locals

vars == <<cfg, stopCh, cancel, ctxs, pc, ctx, currentStartHour,
          currentStartMinute, hour, minute, runs, ret, panicked, setRet,
          installs, calls, fails, sleeps, starts, unlocked, ctArgs, ctOut,
          other>>

Probe == <<calls, fails, sleeps>>

\* A call of CheckTime by the caller, outside the Engine.
Pure == <<ctArgs, ctOut>>

(***************************************************************************)
(* Bounds of the model.  The clock of the model runs over a short day of   *)
(* DayHours hours of HourMinutes minutes; CheckTime itself is defined on   *)
(* all integers.                                                           *)
(***************************************************************************)
DayHours == 3
HourMinutes == 2
MaxStarts == 2
MaxInstalls == 1
MaxCalls == 3

\* time.Date normalises a clock reading to hour * 60 + minute minutes.
MinutesPerHour == 60

Hours == 0 .. (DayHours - 1)
Minutes == 0 .. (HourMinutes - 1)

(***************************************************************************)
(* Config and its periods.  A period arrives with its two clock strings    *)
(* (start, end), here the pair <<hour, minute>> each string spells; Parse  *)
(* fills in startHour, startMinute, endHour, endMinute.                    *)
(***************************************************************************)
LastHour == 23
LastMinute == 59

ValidClock(s) == s[1] \in 0 .. LastHour /\ s[2] \in 0 .. LastMinute

\* Period.Parse: whether it succeeds.
ParseOk(p) == ValidClock(p.start) /\ ValidClock(p.end)

\* Period.Parse: the period it leaves behind on success.
Parse(p) ==
    [startHour |-> p.start[1], startMinute |-> p.start[2],
     endHour |-> p.end[1], endMinute |-> p.end[2]]

RawPeriod(sh, sm, eh, em) == [start |-> <<sh, sm>>, end |-> <<eh, em>>]

\* The first index (Go's, from 0) whose period fails to parse, or -1.
RECURSIVE FirstBad(_, _)
FirstBad(periods, i) ==
    IF i > Len(periods) THEN -1
    ELSE IF ~ParseOk(periods[i]) THEN i - 1
    ELSE FirstBad(periods, i + 1)

ParseAll(periods) == [i \in 1 .. Len(periods) |-> Parse(periods[i])]

DefaultName == "regular"

(***************************************************************************)
(* CheckTime, lines 184-210.                                               *)
(***************************************************************************)
Date(h, m) == h * MinutesPerHour + m

\* CheckTime without line 206: a wrapping period keeps end as computed.
CheckTimeEndKept(startHour, startMinute, endHour, endMinute, currentHour, currentMinute) ==
    LET startTime == Date(startHour, startMinute)
        endTime == Date(endHour, endMinute)
        currentTime == Date(currentHour, currentMinute)
        since == startTime - endTime
    IN  IF since = 0 THEN [start |-> TRUE, end |-> FALSE]
        ELSE IF since < 0
        THEN [start |-> currentTime - startTime >= 0,
              end |-> currentTime - endTime >= 0]
        ELSE LET end1 == currentTime - endTime >= 0
             IN  IF currentTime - startTime >= 0 \/ ~end1
                 THEN [start |-> TRUE, end |-> end1]
                 ELSE [start |-> FALSE, end |-> end1]

\* CheckTime without the "|| !end" of line 204: the hours after midnight of
\* a wrapping period are not started.
CheckTimeNoMorning(startHour, startMinute, endHour, endMinute, currentHour, currentMinute) ==
    LET startTime == Date(startHour, startMinute)
        endTime == Date(endHour, endMinute)
        currentTime == Date(currentHour, currentMinute)
        since == startTime - endTime
    IN  IF since = 0 THEN [start |-> TRUE, end |-> FALSE]
        ELSE IF since < 0
        THEN [start |-> currentTime - startTime >= 0,
              end |-> currentTime - endTime >= 0]
        ELSE LET end1 == currentTime - endTime >= 0
             IN  IF currentTime - startTime >= 0
                 THEN [start |-> TRUE, end |-> FALSE]
                 ELSE [start |-> FALSE, end |-> end1]

\* CheckTime with "> 0" for ">= 0" at line 194: the start minute itself is
\* not started.
CheckTimeStrictStart(startHour, startMinute, endHour, endMinute, currentHour, currentMinute) ==
    LET startTime == Date(startHour, startMinute)
        endTime == Date(endHour, endMinute)
        currentTime == Date(currentHour, currentMinute)
        since == startTime - endTime
    IN  IF since = 0 THEN [start |-> TRUE, end |-> FALSE]
        ELSE IF since < 0
        THEN [start |-> currentTime - startTime > 0,
              end |-> currentTime - endTime >= 0]
        ELSE LET end1 == currentTime - endTime >= 0
             IN  IF currentTime - startTime >= 0 \/ ~end1
                 THEN [start |-> TRUE, end |-> FALSE]
                 ELSE [start |-> FALSE, end |-> end1]

\* CheckTime with "since <= 0" at line 193 and no lines 190-192: a period
\* whose start is its end is treated as one within the day.
CheckTimeNoEqualCase(startHour, startMinute, endHour, endMinute, currentHour, currentMinute) ==
    LET startTime == Date(startHour, startMinute)
        endTime == Date(endHour, endMinute)
        currentTime == Date(currentHour, currentMinute)
        since == startTime - endTime
    IN  IF since <= 0
        THEN [start |-> currentTime - startTime >= 0,
              end |-> currentTime - endTime >= 0]
        ELSE LET end1 == currentTime - endTime >= 0
             IN  IF currentTime - startTime >= 0 \/ ~end1
                 THEN [start |-> TRUE, end |-> FALSE]
                 ELSE [start |-> FALSE, end |-> end1]

CheckTime(startHour, startMinute, endHour, endMinute, currentHour, currentMinute) ==
    LET startTime == Date(startHour, startMinute)
        endTime == Date(endHour, endMinute)
        currentTime == Date(currentHour, currentMinute)
        since == startTime - endTime
    IN  IF since = 0 THEN [start |-> TRUE, end |-> FALSE]
        ELSE IF since < 0
        THEN [start |-> currentTime - startTime >= 0,
              end |-> currentTime - endTime >= 0]
        ELSE LET end1 == currentTime - endTime >= 0
             IN  IF currentTime - startTime >= 0 \/ ~end1
                 THEN [start |-> TRUE, end |-> FALSE]
                 ELSE [start |-> FALSE, end |-> end1]

(***************************************************************************)
(* Contexts.  ctxs[i].parent = 0 and ctxs[i].period = <<>> for a context   *)
(* the caller made; the context line 128 makes carries the period v it was *)
(* made for, as <<v>>.                                                     *)
(***************************************************************************)
RECURSIVE Done(_)
Done(c) ==
    IF c = 0 THEN FALSE
    ELSE ctxs[c].cancelled \/ Done(ctxs[c].parent)

\* Calling the cancel functions of the contexts in cs.
CancelAll(cs) ==
    [i \in DOMAIN ctxs |->
        IF i \in cs THEN [ctxs[i] EXCEPT !.cancelled = TRUE] ELSE ctxs[i]]

(***************************************************************************)
(* The Configs the model draws from.                                       *)
(***************************************************************************)
Names == {"", "job"}
Delays == {-1, 0, 50}
RunDelays == {-1, 50}

\* A period that parses and two that do not (hour 24, minute 60).
GoodPeriod == RawPeriod(0, 0, 1, 0)
BadPeriods == {RawPeriod(LastHour + 1, 0, 1, 0), RawPeriod(0, 0, 1, LastMinute + 1)}

\* Period lists with one period that does not parse, first, last or between.
BadPeriodLists ==
    UNION {{<<b>>, <<b, GoodPeriod>>, <<GoodPeriod, b>>,
            <<GoodPeriod, b, GoodPeriod>>} : b \in BadPeriods}

BadInputs ==
    [Name : {""}, Periods : BadPeriodLists,
     SuccessInterval : {0}, FailInterval : {-1}]

\* What the caller of SetConfig alone draws from.
ConfigInputs ==
    [Name : Names, Periods : {<<>>, <<GoodPeriod>>},
     SuccessInterval : Delays, FailInterval : Delays]

\* Periods on the clock of the model, and those on its whole hours.
ClockPeriods ==
    {RawPeriod(sh, sm, eh, em) : sh \in Hours, sm \in Minutes,
                                 eh \in Hours, em \in Minutes}
HourPeriods == {RawPeriod(sh, 0, eh, 0) : sh \in Hours, eh \in Hours}

\* Configs with periods: Start polls.  One period of any kind, or two
\* different periods on whole hours.
PollPeriodLists ==
    {<<p>> : p \in ClockPeriods}
        \cup {<<pq[1], pq[2]>> :
                 pq \in {x \in HourPeriods \X HourPeriods : x[1] # x[2]}}

HourPeriodLists == {<<p>> : p \in HourPeriods}

PollInputs ==
    [Name : {"job"}, Periods : PollPeriodLists,
     SuccessInterval : {0}, FailInterval : {0}]

\* What SetConfig installs while Start polls: a period within the day, one
\* that wraps past midnight, or none.
PollChanges ==
    [Name : {"job"},
     Periods : {<<RawPeriod(0, 0, 1, 0)>>, <<RawPeriod(1, 0, 0, 0)>>, <<>>},
     SuccessInterval : {0}, FailInterval : {0}]

\* Configs without periods: Start runs the task loop directly.
RunInputs ==
    [Name : {"job"}, Periods : {<<>>},
     SuccessInterval : RunDelays, FailInterval : RunDelays]

(***************************************************************************)
(* SetConfig, lines 62-79, for a cfg that is not nil.                      *)
(***************************************************************************)
\* The Config SetConfig installs: periods parsed, name defaulted.
Install(new) ==
    [Name |-> IF new.Name = "" THEN DefaultName ELSE new.Name,
     Periods |-> ParseAll(new.Periods),
     SuccessInterval |-> new.SuccessInterval,
     FailInterval |-> new.FailInterval]

\* Start is in its polling loop, lines 110-152.
Polling == pc \in {"scan", "select"}

\* SetConfig installing the Config before it has parsed the periods.
CfgInstalledUnparsed(new) == Install(new)

\* e.cfg after SetConfig(new).
CfgAfterSetConfig(new) ==
    IF FirstBad(new.Periods, 1) # -1 THEN cfg ELSE Install(new)

\* What SetConfig(new) returns.
SetConfigRet(new) ==
    LET k == FirstBad(new.Periods, 1)
    IN  IF k # -1
        THEN [called |-> TRUE, err |-> TRUE, k |-> k, polling |-> Polling]
        ELSE [called |-> TRUE, err |-> FALSE, k |-> 0, polling |-> Polling]

SetConfig(new) ==
    /\ FirstBad(new.Periods, 1) = -1 => installs < MaxInstalls
    /\ cfg' = CfgAfterSetConfig(new)
    /\ setRet' = SetConfigRet(new)
    /\ installs' = IF FirstBad(new.Periods, 1) = -1 THEN installs + 1 ELSE installs
    /\ unlocked' = FALSE
    /\ UNCHANGED Probe
    /\ UNCHANGED Pure
    /\ UNCHANGED other
    /\ UNCHANGED <<stopCh, cancel, ctxs, pc, ctx, currentStartHour,
                   currentStartMinute, hour, minute, runs, ret, panicked, starts>>

\* SetConfig(nil), lines 63-65.
SetConfigNil ==
    /\ setRet' = [called |-> TRUE, err |-> FALSE, k |-> 0, polling |-> Polling]
    /\ unlocked' = FALSE
    /\ UNCHANGED Probe
    /\ UNCHANGED Pure
    /\ UNCHANGED other
    /\ UNCHANGED <<cfg, installs, stopCh, cancel, ctxs, pc, ctx, currentStartHour,
                   currentStartMinute, hour, minute, runs, ret, panicked, starts>>

\* GetConfig, lines 81-85: e.cfg, read while holding e.m.
GetConfig == cfg

(***************************************************************************)
(* Shutdown, lines 87-89: close(e.stopCh).  Closing a nil channel and      *)
(* closing a closed channel panic; the panic unwinds the caller, and the   *)
(* model goes on as a caller that recovers does.                           *)
(***************************************************************************)
Shutdown ==
    /\ IF stopCh = "open"
       THEN stopCh' = "closed" /\ UNCHANGED panicked
       ELSE panicked' = TRUE /\ UNCHANGED stopCh
    /\ unlocked' = FALSE
    /\ UNCHANGED Probe
    /\ UNCHANGED Pure
    /\ UNCHANGED other
    /\ UNCHANGED <<cfg, cancel, ctxs, pc, ctx, currentStartHour,
                   currentStartMinute, hour, minute, runs, ret, setRet,
                   installs, starts>>

(***************************************************************************)
(* The clock.  Start reads it once per pass of the polling loop; a tick of  *)
(* the ticker takes it to the next minute.                                 *)
(***************************************************************************)
NextHour == IF minute + 1 = HourMinutes THEN (hour + 1) % DayHours ELSE hour
NextMinute == (minute + 1) % HourMinutes

\* The caller's context of the Start call whose variable ctx is c.
RECURSIVE Root(_)
Root(c) == IF ctxs[c].parent = 0 THEN c ELSE Root(ctxs[c].parent)

(***************************************************************************)
(* Start, lines 91-153.                                                    *)
(***************************************************************************)
\* Start has returned: its locals are no more.
StartLocalsGone ==
    /\ ctx' = 0
    /\ currentStartHour' = -1
    /\ currentStartMinute' = -1
    /\ hour' = 0
    /\ minute' = 0

\* Line 92.  The caller's context may already be cancelled.
StartCall ==
    /\ pc = "idle"
    /\ starts < MaxStarts
    /\ starts' = starts + 1
    /\ stopCh' = "open"
    /\ \E c \in BOOLEAN :
          ctxs' = Append(ctxs, [parent |-> 0, cancelled |-> c, period |-> <<>>])
    /\ ctx' = Len(ctxs) + 1
    /\ pc' = "align"
    /\ ret' = "none"
    /\ unlocked' = FALSE
    /\ UNCHANGED Probe
    /\ UNCHANGED Pure
    /\ UNCHANGED other
    /\ UNCHANGED <<cfg, cancel, currentStartHour, currentStartMinute, hour,
                   minute, runs, panicked, setRet, installs>>

\* The caller cancels the context it gave to the Start in progress.
CancelCaller ==
    /\ pc # "idle"
    /\ ~ctxs[Root(ctx)].cancelled
    /\ ctxs' = CancelAll({Root(ctx)})
    /\ unlocked' = FALSE
    /\ UNCHANGED Probe
    /\ UNCHANGED Pure
    /\ UNCHANGED other
    /\ UNCHANGED <<cfg, stopCh, cancel, pc, ctx, currentStartHour,
                   currentStartMinute, hour, minute, runs, ret, panicked,
                   setRet, installs, starts>>

\* The seconds the model reads off the clock.
Seconds == {0, 1, 59}

\* Lines 94-102: wait for second 0.
Align ==
    /\ pc = "align"
    /\ \E second \in Seconds :
          IF second = 0
          THEN pc' = "mode" /\ unlocked' = FALSE
          ELSE pc' = "align" /\ unlocked' = TRUE    \* line 100
    /\ UNCHANGED Probe
    /\ UNCHANGED Pure
    /\ UNCHANGED other
    /\ UNCHANGED <<cfg, stopCh, cancel, ctxs, ctx, currentStartHour,
                   currentStartMinute, hour, minute, runs, ret, panicked,
                   setRet, installs, starts>>

\* A call of e.run(c, task) that has not yet executed line 156.
NewRun(c, direct) ==
    [ctx |-> c, direct |-> direct, pc |-> "begin", cfg |-> cfg, err |-> "none",
     gen |-> installs]

\* Lines 104-106: no periods, Start calls e.run itself.
ModeDirect ==
    /\ pc = "mode"
    /\ Len(GetConfig.Periods) = 0
    /\ runs' = Append(runs, NewRun(ctx, TRUE))
    /\ calls' = 0
    /\ fails' = 0
    /\ sleeps' = <<>>
    /\ pc' = "run"
    /\ unlocked' = FALSE
    /\ UNCHANGED Pure
    /\ UNCHANGED other
    /\ UNCHANGED <<cfg, stopCh, cancel, ctxs, ctx, currentStartHour,
                   currentStartMinute, hour, minute, ret, panicked, setRet,
                   installs, starts>>

\* Lines 104, 108-109: periods, Start enters the polling loop, at any
\* minute of the day.
ModePoll ==
    /\ pc = "mode"
    /\ Len(GetConfig.Periods) # 0
    /\ currentStartHour' = -1
    /\ currentStartMinute' = -1
    /\ hour' \in Hours
    /\ minute' \in Minutes
    /\ pc' = "scan"
    /\ unlocked' = FALSE
    /\ UNCHANGED Probe
    /\ UNCHANGED Pure
    /\ UNCHANGED other
    /\ UNCHANGED <<cfg, stopCh, cancel, ctxs, ctx, runs, ret, panicked, setRet,
                   installs, starts>>

(***************************************************************************)
(* The polling loop, lines 110-152.                                        *)
(***************************************************************************)
\* Lines 118-141: the loop over the periods, from period i on.  s carries
\* currentStartHour (csh), currentStartMinute (csm), e.cancel, the contexts
\* cancelled so far, and the period line 128 was reached for, if any (which
\* breaks the loop).
RECURSIVE ScanPeriods(_, _, _)
ScanPeriods(periods, i, s) ==
    IF i > Len(periods) THEN s
    ELSE
      LET v == periods[i]
          t == CheckTime(v.startHour, v.startMinute, v.endHour, v.endMinute,
                         hour, minute)
      IN  IF s.csh > -1 /\ (s.csh # v.startHour \/ s.csm # v.startMinute)
          THEN ScanPeriods(periods, i + 1, s)
          ELSE IF t.start /\ ~t.end /\ s.csh # v.startHour
          THEN [s EXCEPT !.csh = v.startHour, !.csm = v.startMinute,
                         !.launch = <<v>>]
          ELSE IF t.start /\ t.end /\ s.cancel # 0
          THEN ScanPeriods(periods, i + 1,
                           [s EXCEPT !.cancelled = @ \cup {s.cancel},
                                     !.cancel = 0])
          ELSE ScanPeriods(periods, i + 1, s)

\* Lines 110-141: one pass of the polling loop, up to the select.
Scan ==
    /\ pc = "scan"
    /\ LET s == ScanPeriods(GetConfig.Periods, 1,
                            [csh |-> currentStartHour, csm |-> currentStartMinute,
                             cancel |-> cancel, cancelled |-> {},
                             launch |-> <<>>])
           child == Len(ctxs) + 1
       IN  /\ currentStartHour' = s.csh
           /\ currentStartMinute' = s.csm
           /\ IF s.launch # <<>>
              THEN /\ ctxs' = Append(CancelAll(s.cancelled),
                                     [parent |-> ctx, cancelled |-> FALSE,
                                      period |-> s.launch])
                   /\ ctx' = child
                   /\ cancel' = child
                   /\ runs' = Append(runs, NewRun(child, FALSE))
              ELSE /\ ctxs' = CancelAll(s.cancelled)
                   /\ cancel' = s.cancel
                   /\ UNCHANGED <<ctx, runs>>
    /\ unlocked' = (cancel = 0)    \* line 112
    /\ pc' = "select"
    /\ UNCHANGED Probe
    /\ UNCHANGED Pure
    /\ UNCHANGED other
    /\ UNCHANGED <<cfg, stopCh, hour, minute, ret, panicked, setRet, installs,
                   starts>>

\* The select taking its stop case whatever e.stopCh is.
StopAlwaysReady == TRUE

\* Line 144: the receive from e.stopCh is ready once the channel is closed.
StopSignalled == stopCh = "closed"

\* Start returning on the stop channel without cancelling.
StopLeavesRunning == ctxs

\* Lines 145-147: the contexts after the stop channel was found closed.
StopCancels == IF cancel # 0 THEN CancelAll({cancel}) ELSE ctxs

\* Lines 144-149: the stop channel is closed.
SelectStop ==
    /\ pc = "select"
    /\ StopSignalled
    /\ ctxs' = StopCancels
    /\ unlocked' = TRUE    \* line 148
    /\ ret' = "nil"
    /\ pc' = "idle"
    /\ StartLocalsGone
    /\ UNCHANGED Probe
    /\ UNCHANGED Pure
    /\ UNCHANGED other
    /\ UNCHANGED <<cfg, stopCh, cancel, runs, panicked, setRet, installs,
                   starts>>

\* Line 150: the ticker fires, a minute after the last pass.
SelectTick ==
    /\ pc = "select"
    /\ hour' = NextHour
    /\ minute' = NextMinute
    /\ pc' = "scan"
    /\ unlocked' = FALSE
    /\ UNCHANGED Probe
    /\ UNCHANGED Pure
    /\ UNCHANGED other
    /\ UNCHANGED <<cfg, stopCh, cancel, ctxs, ctx, currentStartHour,
                   currentStartMinute, runs, ret, panicked, setRet, installs,
                   starts>>

(***************************************************************************)
(* run, lines 155-182.  runs[i].cfg is its local variable cfg.             *)
(***************************************************************************)
Upd(i, r) == [runs EXCEPT ![i] = r]

\* runs without its i-th call, which is over.
Drop(i) == SubSeq(runs, 1, i - 1) \o SubSeq(runs, i + 1, Len(runs))

RunFrame == <<cfg, stopCh, cancel, ctxs, pc, ctx, currentStartHour,
              currentStartMinute, hour, minute, ret, panicked, setRet,
              installs, starts, ctArgs, ctOut, other>>

\* Line 156.
RunBegin(i) ==
    /\ runs[i].pc = "begin"
    /\ runs' = Upd(i, [runs[i] EXCEPT !.pc = "check", !.cfg = GetConfig,
                                      !.gen = installs])
    /\ unlocked' = FALSE
    /\ UNCHANGED Probe
    /\ UNCHANGED RunFrame

\* run going on to the task without looking at its context.
RunNeverChecks(r) == [r EXCEPT !.pc = "task"]

\* run looking at the context Start was given, not at the one line 128
\* derived from it.
RunChecksOuter(r) ==
    IF Done(ctxs[r.ctx].parent)
    THEN [r EXCEPT !.pc = "returned", !.err = "canceled"]
    ELSE [r EXCEPT !.pc = "task"]

\* run with a stop case in its select: it returns once e.stopCh is closed.
RunChecksStop(r) ==
    IF Done(r.ctx) \/ stopCh = "closed"
    THEN [r EXCEPT !.pc = "returned", !.err = "canceled"]
    ELSE [r EXCEPT !.pc = "task"]

\* Lines 158-162: the select on ctx.Done() with its default case.
RunAfterCheck(r) ==
    IF Done(r.ctx)
    THEN [r EXCEPT !.pc = "returned", !.err = "canceled"]
    ELSE [r EXCEPT !.pc = "task"]

\* Lines 158-162.
RunCheck(i) ==
    /\ runs[i].pc = "check"
    /\ runs' = Upd(i, RunAfterCheck(runs[i]))
    /\ unlocked' = FALSE
    /\ UNCHANGED Probe
    /\ UNCHANGED RunFrame

\* run retrying whatever FailInterval is.
RunAlwaysRetries(r) == [r EXCEPT !.pc = "sleepF"]

\* Lines 164-173: the task returns an error.
RunAfterFail(r) ==
    IF r.cfg.FailInterval < 0
    THEN [r EXCEPT !.pc = "returned", !.err = "task"]
    ELSE [r EXCEPT !.pc = "sleepF"]

RunTaskFail(i) ==
    /\ runs[i].pc = "task"
    /\ runs[i].direct => calls < MaxCalls
    /\ runs' = Upd(i, RunAfterFail(runs[i]))
    /\ calls' = IF runs[i].direct THEN calls + 1 ELSE calls
    /\ fails' = IF runs[i].direct THEN fails + 1 ELSE fails
    /\ UNCHANGED sleeps
    /\ unlocked' = (runs[i].cfg.FailInterval >= 0)    \* lines 168, 169
    /\ UNCHANGED RunFrame

\* run going on whatever SuccessInterval is.
RunAlwaysContinues(r) == [r EXCEPT !.pc = "sleepS", !.cfg = GetConfig]

\* Lines 164, 174-179: the task returns nil.
RunAfterSuccess(r) ==
    IF GetConfig.SuccessInterval < 0
    THEN [r EXCEPT !.pc = "returned", !.err = "nil", !.cfg = GetConfig]
    ELSE [r EXCEPT !.pc = "sleepS", !.cfg = GetConfig]

RunTaskSuccess(i) ==
    /\ runs[i].pc = "task"
    /\ runs[i].direct => calls < MaxCalls
    /\ runs' = Upd(i, RunAfterSuccess(runs[i]))
    /\ calls' = IF runs[i].direct THEN calls + 1 ELSE calls
    /\ UNCHANGED <<fails, sleeps>>
    /\ unlocked' = (GetConfig.SuccessInterval >= 0)    \* line 179
    /\ UNCHANGED RunFrame

\* Lines 171 and 180: the sleep, then back to line 158.
RunSleep(i) ==
    /\ runs[i].pc \in {"sleepF", "sleepS"}
    /\ runs' = Upd(i, [runs[i] EXCEPT !.pc = "check"])
    /\ sleeps' = IF runs[i].direct
                 THEN Append(sleeps, IF runs[i].pc = "sleepF"
                                     THEN runs[i].cfg.FailInterval
                                     ELSE runs[i].cfg.SuccessInterval)
                 ELSE sleeps
    /\ UNCHANGED <<calls, fails>>
    /\ unlocked' = FALSE
    /\ UNCHANGED RunFrame

\* Lines 130-134: the goroutine of a period logs how e.run ended.
RunExit(i) ==
    /\ runs[i].pc = "returned"
    /\ ~runs[i].direct
    /\ runs' = Drop(i)
    /\ unlocked' = TRUE    \* lines 131, 133
    /\ UNCHANGED Probe
    /\ UNCHANGED RunFrame

\* Line 105: Start returns what e.run returned.
StartReturn ==
    /\ pc = "run"
    /\ runs[Len(runs)].pc = "returned"
    /\ runs[Len(runs)].direct
    /\ runs' = Drop(Len(runs))
    /\ ret' = runs[Len(runs)].err
    /\ pc' = "idle"
    /\ StartLocalsGone
    /\ unlocked' = FALSE
    /\ UNCHANGED Probe
    /\ UNCHANGED Pure
    /\ UNCHANGED other
    /\ UNCHANGED <<cfg, stopCh, cancel, ctxs, panicked, setRet, installs,
                   starts>>

(***************************************************************************)
(* The specifications.  The Engine was built by New from a Config that     *)
(* parses.                                                                 *)
(***************************************************************************)
\* The position and the locals of a call of Start that is not in progress.
NoStart ==
    [pc |-> "idle", ctx |-> 0, currentStartHour |-> -1,
     currentStartMinute |-> -1, hour |-> 0, minute |-> 0]

InitEngine(inputs) ==
    /\ cfg \in {Install(c) : c \in inputs}
    /\ stopCh = "nil"
    /\ cancel = 0
    /\ ctxs = <<>>
    /\ pc = "idle"
    /\ ctx = 0
    /\ currentStartHour = -1
    /\ currentStartMinute = -1
    /\ hour = 0
    /\ minute = 0
    /\ runs = <<>>
    /\ ret = "none"
    /\ panicked = FALSE
    /\ setRet = [called |-> FALSE, err |-> FALSE, k |-> 0, polling |-> FALSE]
    /\ installs = 0
    /\ calls = 0
    /\ fails = 0
    /\ sleeps = <<>>
    /\ starts = 0
    /\ unlocked = FALSE
    /\ other = NoStart

\* No call of CheckTime from outside the Engine.
InitWith(inputs) ==
    /\ InitEngine(inputs)
    /\ ctArgs = <<>>
    /\ ctOut = <<>>

RunStep ==
    \E i \in DOMAIN runs :
        \/ RunBegin(i)
        \/ RunCheck(i)
        \/ RunTaskFail(i)
        \/ RunTaskSuccess(i)
        \/ RunSleep(i)

\* The caller installs Configs; Start is not called.
InitConfig == InitWith(ConfigInputs)

NextConfig ==
    \/ \E new \in ConfigInputs \cup BadInputs : SetConfig(new)
    \/ SetConfigNil

SpecConfig == InitConfig /\ [][NextConfig]_vars

\* No periods: Start runs the task loop itself.
InitRun == InitWith(RunInputs)

NextRun ==
    \/ \E new \in RunInputs : SetConfig(new)
    \/ Shutdown
    \/ StartCall
    \/ CancelCaller
    \/ Align
    \/ ModeDirect
    \/ RunStep
    \/ StartReturn

SpecRun == InitRun /\ [][NextRun]_vars

\* Periods: one call of Start, which polls once a minute and runs the task
\* loop per period.
InitPoll == InitWith(PollInputs)

NextPoll ==
    \/ \E new \in PollChanges : SetConfig(new)
    \/ Shutdown
    \/ starts = 0 /\ StartCall
    \/ CancelCaller
    \/ Align
    \/ ModePoll
    \/ Scan
    \/ SelectStop
    \/ SelectTick
    \/ RunStep
    \/ \E i \in DOMAIN runs : RunExit(i)

SpecPoll == InitPoll /\ [][NextPoll]_vars

\* Liveness, over the Configs of one period on whole hours.  The goroutine
\* inside Start is scheduled, and its select, which chooses at random among
\* the ready cases, does not pass over the closed stop channel for ever.
InitHourly == InitWith({c \in PollInputs : c.Periods \in HourPeriodLists})

SpecPollFair ==
    InitHourly /\ [][NextPoll]_vars /\ WF_vars(Scan) /\ SF_vars(SelectStop)

\* Periods on whole hours, with every sign of the two delays: the run loop
\* of a period may end by itself.  No SetConfig; Start may be called again
\* once it has returned.
WindowInputs ==
    [Name : {"job"}, Periods : HourPeriodLists,
     SuccessInterval : RunDelays, FailInterval : RunDelays]

InitWindow == InitWith(WindowInputs)

NextWindow ==
    \/ Shutdown
    \/ StartCall
    \/ CancelCaller
    \/ Align
    \/ ModePoll
    \/ Scan
    \/ SelectStop
    \/ SelectTick
    \/ RunStep
    \/ \E i \in DOMAIN runs : RunExit(i)

SpecWindow == InitWindow /\ [][NextWindow]_vars

(***************************************************************************)
(* Start called again while an earlier call is still in progress: Start    *)
(* blocks, so it runs in a goroutine of its own, and Shutdown returns      *)
(* without waiting for it.  The actions above step one call of Start;      *)
(* other holds the call they are not stepping.                             *)
(***************************************************************************)
\* The goroutine scheduler turns to the other call of Start.
SwitchStart ==
    /\ pc # "idle" \/ other.pc # "idle"
    /\ other' = [pc |-> pc, ctx |-> ctx, currentStartHour |-> currentStartHour,
                 currentStartMinute |-> currentStartMinute,
                 hour |-> hour, minute |-> minute]
    /\ pc' = other.pc
    /\ ctx' = other.ctx
    /\ currentStartHour' = other.currentStartHour
    /\ currentStartMinute' = other.currentStartMinute
    /\ hour' = other.hour
    /\ minute' = other.minute
    /\ unlocked' = FALSE
    /\ UNCHANGED Probe
    /\ UNCHANGED Pure
    /\ UNCHANGED <<cfg, stopCh, cancel, ctxs, runs, ret, panicked, setRet,
                   installs, starts>>

\* Both calls read the same clock, and each ticks once a minute: while both
\* poll, their readings are the same minute or one minute apart.
ClocksAgree ==
    (Polling /\ other.pc \in {"scan", "select"}) =>
        \/ <<hour, minute>> = <<other.hour, other.minute>>
        \/ <<NextHour, NextMinute>> = <<other.hour, other.minute>>
        \/ /\ hour = (IF other.minute + 1 = HourMinutes
                       THEN (other.hour + 1) % DayHours ELSE other.hour)
           /\ minute = (other.minute + 1) % HourMinutes

\* One period, and the task loop never ends by itself.
AgainInputs ==
    [Name : {"job"}, Periods : {<<GoodPeriod>>},
     SuccessInterval : {0}, FailInterval : {0}]

InitAgain == InitWith(AgainInputs)

\* The caller calls Start again only after it has called Shutdown.
NextAgain ==
    \/ Shutdown
    \/ StartCall /\ (starts > 0 => stopCh = "closed")
    \/ SwitchStart
    \/ Align
    \/ ModePoll /\ ClocksAgree'
    \/ Scan
    \/ SelectStop
    \/ SelectTick /\ ClocksAgree'
    \/ RunStep
    \/ \E i \in DOMAIN runs : RunExit(i)

SpecAgain == InitAgain /\ [][NextAgain]_vars

(***************************************************************************)
(* CheckTime called on its own, with clock readings of the real day.       *)
(***************************************************************************)
CtHours == {0, 5, 6, 7, 9, 10, 17, 22, LastHour}
CtMinutes == {0, 30, LastMinute}
CtClocks == CtHours \X CtMinutes

\* The call returns.
CallCheckTime ==
    /\ ctArgs # <<>>
    /\ ctOut = <<>>
    /\ ctOut' = <<CheckTime(ctArgs[1], ctArgs[2], ctArgs[3], ctArgs[4],
                            ctArgs[5], ctArgs[6])>>
    /\ UNCHANGED <<cfg, stopCh, cancel, ctxs, pc, ctx, currentStartHour,
                   currentStartMinute, hour, minute, runs, ret, panicked,
                   setRet, installs, calls, fails, sleeps, starts, unlocked,
                   ctArgs, other>>

InitCheckTime ==
    /\ InitEngine({[Name |-> "job", Periods |-> <<>>,
                    SuccessInterval |-> 0, FailInterval |-> 0]})
    /\ ctArgs \in {<<s[1], s[2], e[1], e[2], n[1], n[2]>> :
                      s \in CtClocks, e \in CtClocks, n \in CtClocks}
    /\ ctOut = <<>>

NextCheckTime == CallCheckTime

SpecCheckTime == InitCheckTime /\ [][NextCheckTime]_vars

(***************************************************************************)
(* The claims.                                                             *)
(***************************************************************************)
\* What CheckTime says of the parsed period v at the minute Start last read.
Now(v) ==
    CheckTime(v.startHour, v.startMinute, v.endHour, v.endMinute, hour, minute)

\* A pass of the polling loop (Scan) in which line 128 made a context.
Launches == Len(ctxs') > Len(ctxs)

\* C1: Shutdown never panics, whether called before any Start, once during
\* a Start, or a second time after a first Shutdown.
C1_ShutdownNeverPanics == ~panicked

\* C2: once the run loop of a period with start # end was launched, the pass
\* of the polling loop at the minute of the period's end has cancelled the
\* context made for that period (no SetConfig, no Shutdown in between).
C2_EndCancelsPeriod ==
    \A c \in DOMAIN ctxs :
        (/\ ctxs[c].period # <<>>
         /\ pc = "select"
         /\ installs = 0
         /\ stopCh = "open"
         /\ <<ctxs[c].period[1].startHour, ctxs[c].period[1].startMinute>>
               # <<ctxs[c].period[1].endHour, ctxs[c].period[1].endMinute>>
         /\ hour = ctxs[c].period[1].endHour
         /\ minute = ctxs[c].period[1].endMinute)
        => ctxs[c].cancelled

\* C3: once a period's context was cancelled at its end and e.cancel cleared,
\* every later pass that finds a period with start && !end launches a run
\* loop.
C3_NewPeriodPickedUp ==
    [][(/\ pc = "scan"
        /\ pc' = "select"
        /\ currentStartHour > -1
        /\ cancel = 0
        /\ \E i \in DOMAIN cfg.Periods :
              Now(cfg.Periods[i]).start /\ ~Now(cfg.Periods[i]).end)
       => Launches]_vars

\* C4: a SetConfig whose Config has a period that does not parse returns an
\* error naming that period, and GetConfig then returns the Config installed
\* before, wherever the bad period stands among good ones.
C4_RejectionLeavesConfig ==
    [][\A new \in BadInputs :
          SetConfig(new) =>
              /\ setRet'.err
              /\ \A j \in 1 .. setRet'.k : ParseOk(new.Periods[j])
              /\ ~ParseOk(new.Periods[setRet'.k + 1])
              /\ GetConfig' = GetConfig]_vars

\* A Config was installed by SetConfig and a later SetConfig was rejected for
\* its second period.
C4_Witness == installs > 0 /\ setRet.err /\ setRet.k = 1

\* C5: every read Start and run make of e.cfg is made holding e.m.
C5_ConfigReadUnderMutex == ~unlocked

\* C6: at every pass of the polling loop after a SetConfig that succeeded
\* while Start was polling, if e.cancel is nil and a period of the installed
\* Config has start && !end, the pass launches a run loop.
C6_NewPeriodsTakeEffect ==
    [][(/\ pc = "scan"
        /\ pc' = "select"
        /\ setRet.called /\ ~setRet.err /\ setRet.polling
        /\ cancel = 0
        /\ \E i \in DOMAIN cfg.Periods :
              Now(cfg.Periods[i]).start /\ ~Now(cfg.Periods[i]).end)
       => Launches]_vars

\* C7: the delay decision run makes after a task invocation follows the
\* Config installed at that moment: on failure it returns exactly when the
\* installed FailInterval is negative, on success exactly when the installed
\* SuccessInterval is negative.
C7_DecisionUsesInstalledConfig ==
    [][\A i \in DOMAIN runs :
          /\ RunTaskFail(i) =>
                (runs'[i].pc = "returned" <=> GetConfig.FailInterval < 0)
          /\ RunTaskSuccess(i) =>
                (runs'[i].pc = "returned" <=> GetConfig.SuccessInterval < 0)]_vars

\* The e.run that Start called at line 105, and the conditions of C8.
DirectRun == runs[Len(runs)]

SleepsAre(n, d) == sleeps = [j \in 1 .. n |-> d]

C8_Pre ==
    /\ pc = "run"
    /\ DirectRun.pc # "begin"
    /\ DirectRun.gen = installs
    /\ ~Done(DirectRun.ctx)
    /\ GetConfig.FailInterval >= 0
    /\ GetConfig.SuccessInterval < 0

\* C8: without periods, with a context that is not cancelled and a Config
\* that does not change, FailInterval >= 0 and SuccessInterval < 0: e.run
\* sleeps FailInterval after each failure, returns nil on the first success,
\* after fails + 1 invocations, and Start returns that nil.
C8_RetryUntilFirstSuccess ==
    /\ [](C8_Pre =>
            /\ DirectRun.pc = "returned" =>
                  DirectRun.err = "nil" /\ calls = fails + 1
            /\ DirectRun.pc # "returned" => calls = fails
            /\ SleepsAre(IF DirectRun.pc = "sleepF" THEN fails - 1 ELSE fails,
                         GetConfig.FailInterval))
    /\ [][(C8_Pre /\ pc' = "idle") =>
            /\ ret' = "nil"
            /\ calls' = fails' + 1
            /\ sleeps' = [j \in 1 .. fails' |-> GetConfig.FailInterval]]_vars

\* Start has returned nil after the task failed twice and then succeeded,
\* with two sleeps of FailInterval in between.
C8_Witness ==
    /\ pc = "idle" /\ ret = "nil"
    /\ installs = 0 /\ starts = 1
    /\ ~ctxs[1].cancelled
    /\ cfg.SuccessInterval = -1 /\ cfg.FailInterval = 50
    /\ calls = 3 /\ fails = 2 /\ sleeps = <<50, 50>>

\* C9: when the task fails while the Config, unchanged since e.run began,
\* has a negative FailInterval, e.run returns the task's error at once, with
\* no sleep and no further invocation; the e.run of line 105 makes it
\* Start's return value.
C9_FailureIsFatal ==
    /\ [][\A i \in DOMAIN runs :
             (RunTaskFail(i) /\ runs[i].gen = installs
                 /\ GetConfig.FailInterval < 0)
             => (/\ runs'[i].pc = "returned"
                 /\ runs'[i].err = "task"
                 /\ sleeps' = sleeps)]_vars
    /\ [][(pc = "run" /\ DirectRun.pc = "returned") =>
             (/\ calls' = calls /\ fails' = fails /\ sleeps' = sleeps
              /\ pc' = "idle" => ret' = DirectRun.err)]_vars

\* Start has returned the error of the task's only invocation.
C9_Witness ==
    /\ pc = "idle" /\ ret = "task"
    /\ installs = 0
    /\ cfg.FailInterval = -1
    /\ calls = 1 /\ fails = 1 /\ sleeps = <<>>

\* C10: once the stop channel is closed while Start polls, Start returns
\* nil, and when it returns every context made for a period is cancelled,
\* whatever the run loops are doing.
C10_ShutdownStopsPolling ==
    /\ (Polling /\ stopCh = "closed") ~> (pc = "idle" /\ ret = "nil")
    /\ [][(pc = "select" /\ pc' = "idle") =>
             (/\ ret' = "nil"
              /\ \A c \in DOMAIN ctxs :
                    ctxs[c].period # <<>> => ctxs'[c].cancelled)]_vars

\* Start has returned nil while the run loop of a period, its context now
\* cancelled, is still in a sleep.
C10_Witness ==
    /\ pc = "idle" /\ ret = "nil"
    /\ cancel # 0
    /\ \E i \in DOMAIN runs :
          /\ runs[i].pc \in {"sleepF", "sleepS"}
          /\ ctxs[runs[i].ctx].cancelled

\* A run loop launched for a period (line 130), as opposed to line 105's.
PeriodRuns == {i \in DOMAIN runs : ~runs[i].direct}

\* C11: with periods, Start returns only from the stop case of its select,
\* with the stop channel closed, and returns nil; a step in which the run
\* loop of a period ends (task error, nil or the context's error) or its
\* goroutine exits leaves the goroutine inside Start where it is, and while
\* Start polls the next pass or the next tick is always possible.
C11_ReturnsOnlyOnShutdown ==
    /\ [][(Polling /\ pc' = "idle") => (stopCh = "closed" /\ ret' = "nil")]_vars
    /\ [][(/\ Len(runs') = Len(runs)
            /\ \E i \in PeriodRuns :
                  runs[i].pc # "returned" /\ runs'[i].pc = "returned")
           => (pc' = pc /\ ret' = ret)]_vars
    /\ [][(\E i \in PeriodRuns : RunExit(i)) => (pc' = pc /\ ret' = ret)]_vars
    /\ [](Polling => ENABLED (Scan \/ SelectTick))

\* Start still polls, a tick after the pass that launched a run loop which
\* has ended by itself, its context not cancelled and no Shutdown called.
C11_Witness ==
    /\ pc = "scan"
    /\ stopCh = "open"
    /\ cancel # 0 /\ ~Done(cancel)
    /\ \E i \in PeriodRuns :
          /\ runs[i].ctx = cancel
          /\ runs[i].pc = "returned"
          /\ runs[i].err = "task"

\* The call of CheckTime that has returned: its period's start and end and
\* the current time as clock readings <<hour, minute>>, compared as such.
CtStart == <<ctArgs[1], ctArgs[2]>>
CtEnd == <<ctArgs[3], ctArgs[4]>>
CtNow == <<ctArgs[5], ctArgs[6]>>

AtOrAfter(a, b) == a[1] > b[1] \/ (a[1] = b[1] /\ a[2] >= b[2])

Returned == ctOut # <<>>
Wrapping == CtStart # CtEnd /\ AtOrAfter(CtStart, CtEnd)
WithinDay == CtStart # CtEnd /\ AtOrAfter(CtEnd, CtStart)

\* C12: for a wrapping period (start after end) CheckTime returns
\* end = (now >= end time), at every current time.
C12_WrappingEndIsPastEnd ==
    (Returned /\ Wrapping) => (ctOut[1].end <=> AtOrAfter(CtNow, CtEnd))

\* C12 as amended: for a wrapping period CheckTime returns end = TRUE exactly
\* when the current time is at or after the end time and before the start
\* time.
C12_WrappingEndUntilStart ==
    (Returned /\ Wrapping) =>
        (ctOut[1].end <=> (AtOrAfter(CtNow, CtEnd) /\ ~AtOrAfter(CtNow, CtStart)))

\* 22:00-06:00 at 23:00: past the end time of the clock day, and end = FALSE.
C12_Witness ==
    Returned /\ ctArgs = <<22, 0, 6, 0, LastHour, 0>> /\ ~ctOut[1].end

\* C13: for a wrapping period CheckTime returns start = TRUE exactly when the
\* current time is at or after the start time or before the end time, and
\* never start and end both; 22:00-06:00 gives (TRUE, FALSE) at 23:00 and at
\* 05:00 and (FALSE, TRUE) at 07:00.
C13_WrappingStart ==
    (Returned /\ Wrapping) =>
        /\ ctOut[1].start <=> (AtOrAfter(CtNow, CtStart) \/ ~AtOrAfter(CtNow, CtEnd))
        /\ ~(ctOut[1].start /\ ctOut[1].end)
        /\ ctArgs \in {<<22, 0, 6, 0, LastHour, 0>>, <<22, 0, 6, 0, 5, 0>>} =>
              ctOut[1] = [start |-> TRUE, end |-> FALSE]
        /\ ctArgs = <<22, 0, 6, 0, 7, 0>> =>
              ctOut[1] = [start |-> FALSE, end |-> TRUE]

\* 22:00-06:00 at 05:00 has returned (TRUE, FALSE).
C13_Witness ==
    Returned /\ ctArgs = <<22, 0, 6, 0, 5, 0>>
        /\ ctOut[1].start /\ ~ctOut[1].end

\* C14: for a period within the day (start before end) CheckTime returns
\* start = (now >= start time) and end = (now >= end time), so both only at
\* or after the end time; 09:00-17:00 at 10:30 gives (TRUE, FALSE).
C14_WithinDay ==
    (Returned /\ WithinDay) =>
        /\ ctOut[1].start <=> AtOrAfter(CtNow, CtStart)
        /\ ctOut[1].end <=> AtOrAfter(CtNow, CtEnd)
        /\ (ctOut[1].start /\ ctOut[1].end) => AtOrAfter(CtNow, CtEnd)
        /\ ctArgs = <<9, 0, 17, 0, 10, 30>> =>
              ctOut[1] = [start |-> TRUE, end |-> FALSE]

\* 09:00-17:00 at 10:30 has returned (TRUE, FALSE).
C14_Witness ==
    Returned /\ ctArgs = <<9, 0, 17, 0, 10, 30>>
        /\ ctOut[1].start /\ ~ctOut[1].end

\* The parsed period v has its start at its end.
Degenerate(v) == v.startHour = v.endHour /\ v.startMinute = v.endMinute

\* CheckTime on every period of the real day whose start is its end, at every
\* current time.
DegenerateOnRealDay ==
    \A w \in CtClocks, n \in CtClocks :
        CheckTime(w[1], w[2], w[1], w[2], n[1], n[2]) = [start |-> TRUE, end |-> FALSE]

\* C15: for a period whose start is its end CheckTime returns (TRUE, FALSE)
\* at every current time, and a pass of the polling loop cancels the context
\* made for such a period only on behalf of another period of the Config, one
\* with start # end that has start && end at that minute.
C15_DegenerateNeverEnds ==
    /\ [](DegenerateOnRealDay
           /\ \A i \in DOMAIN cfg.Periods :
                 Degenerate(cfg.Periods[i]) =>
                     Now(cfg.Periods[i]) = [start |-> TRUE, end |-> FALSE])
    /\ [][(pc = "scan" /\ pc' = "select") =>
             \A c \in DOMAIN ctxs :
                 (/\ ctxs[c].period # <<>>
                  /\ Degenerate(ctxs[c].period[1])
                  /\ ~ctxs[c].cancelled
                  /\ ctxs'[c].cancelled)
                 => \E i \in DOMAIN cfg.Periods :
                       /\ ~Degenerate(cfg.Periods[i])
                       /\ Now(cfg.Periods[i]).start
                       /\ Now(cfg.Periods[i]).end]_vars

\* The polling loop is about to make its pass at the minute that is both
\* start and end of the only period, whose context, made by an earlier pass,
\* is e.cancel's and not cancelled.
C15_Witness ==
    /\ pc = "scan"
    /\ Len(cfg.Periods) = 1
    /\ cancel # 0
    /\ ~Done(cancel)
    /\ ctxs[cancel].period = cfg.Periods
    /\ Degenerate(cfg.Periods[1])
    /\ hour = cfg.Periods[1].endHour
    /\ minute = cfg.Periods[1].endMinute

\* The contexts line 128 made that are not cancelled, by their own cancel
\* function or through the context they derive from.
ActiveContexts == {c \in DOMAIN ctxs : ctxs[c].period # <<>> /\ ~Done(c)}

\* C16: at most one context made by the polling loop is not cancelled, and a
\* pass of the polling loop launches a run loop only when there is none.
C16_OneActiveContext ==
    /\ [](Cardinality(ActiveContexts) <= 1)
    /\ [][(pc = "scan" /\ Launches) => ActiveContexts = {}]_vars

\* C17: a step of Start that invokes e.cancel (the context it cancels
\* becomes cancelled) leaves e.cancel nil or holding a newer context, and
\* whenever no Start is in progress e.cancel is nil, so that a later Start
\* never finds the handle of an earlier one.
C17_HandleCleared ==
    /\ [][(/\ Polling
            /\ cancel # 0
            /\ ~ctxs[cancel].cancelled
            /\ ctxs'[cancel].cancelled)
           => cancel' # cancel]_vars
    /\ []((pc = "idle" /\ other.pc = "idle") => cancel = 0)

\* C18: when e.run begins an iteration (line 158) with a context that is
\* cancelled, it returns the context's error without invoking the task:
\* nothing is counted as an invocation, a run loop that has returned takes
\* no further step, and a Start without periods that returns before any
\* invocation returns that error.
C18_CancelledSkipsTask ==
    /\ [][\A i \in DOMAIN runs :
             (/\ runs[i].pc = "check"
              /\ Done(runs[i].ctx)
              /\ Len(runs') = Len(runs)
              /\ runs'[i] # runs[i])
             => (/\ runs'[i].pc = "returned"
                 /\ runs'[i].err = "canceled"
                 /\ Probe' = Probe)]_vars
    /\ [][\A i \in DOMAIN runs :
             (runs[i].pc = "returned" /\ Len(runs') = Len(runs))
             => (runs'[i] = runs[i] /\ Probe' = Probe)]_vars
    /\ [][(pc = "run" /\ pc' = "idle" /\ calls = 0) => ret' = "canceled"]_vars

\* Start, called without periods and with a cancelled context, has returned
\* the context's error and the task was never invoked.
C18_Witness ==
    /\ pc = "idle"
    /\ starts = 1
    /\ ctxs[1].cancelled
    /\ ret = "canceled"
    /\ calls = 0

\* What is left of e.run once its context is cancelled: the invocation whose
\* check had passed, one sleep, the check that returns.
AfterCancel ==
    {<<"begin", "check">>, <<"task", "sleepF">>, <<"task", "sleepS">>,
     <<"task", "returned">>, <<"sleepF", "check">>, <<"sleepS", "check">>,
     <<"check", "returned">>}

\* C19: a cancelled context stays cancelled, and from then on the run loop
\* under it only moves forward along task, sleep, check, returned: at most
\* the one invocation whose check had passed before the cancellation, then
\* at most one sleep, then the check that returns; it never goes from the
\* check to the task again.
C19_BoundedAfterCancel ==
    /\ [][\A c \in DOMAIN ctxs : Done(c) => Done(c)']_vars
    /\ [][\A i \in PeriodRuns :
             (/\ Done(runs[i].ctx)
              /\ Len(runs') = Len(runs)
              /\ runs'[i] # runs[i])
             => (/\ <<runs[i].pc, runs'[i].pc>> \in AfterCancel
                 /\ runs'[i].ctx = runs[i].ctx)]_vars

\* The period has ended, its context is cancelled and e.cancel cleared,
\* while its run loop, past the check, is about to invoke the task.
C19_Witness ==
    /\ Polling
    /\ starts = 1
    /\ cancel = 0
    /\ \E i \in PeriodRuns :
          /\ ctxs[runs[i].ctx].cancelled
          /\ runs[i].pc = "task"

\* C20: without periods the closed stop channel changes nothing: at the
\* check of an iteration e.run goes on to the task unless its context is
\* cancelled, and invokes it; e.run returns only the context's error with
\* the context cancelled, the task's error with a negative FailInterval, or
\* nil with a negative SuccessInterval, and Start returns only what e.run
\* returned.
C20_DirectRunIgnoresStop ==
    /\ [][(/\ pc = "run"
            /\ stopCh = "closed"
            /\ DirectRun.pc = "check"
            /\ ~Done(DirectRun.ctx)
            /\ runs' # runs)
           => (pc' = "run" /\ runs'[Len(runs)].pc = "task")]_vars
    /\ [][(/\ pc = "run"
            /\ stopCh = "closed"
            /\ DirectRun.pc = "task"
            /\ runs' # runs)
           => (pc' = "run" /\ calls' = calls + 1)]_vars
    /\ [][(pc = "run" /\ DirectRun.pc # "returned" /\ runs' # runs
              /\ runs'[Len(runs)].pc = "returned")
           => \/ runs'[Len(runs)].err = "canceled" /\ Done(DirectRun.ctx)
              \/ runs'[Len(runs)].err = "task" /\ DirectRun.cfg.FailInterval < 0
              \/ runs'[Len(runs)].err = "nil" /\ GetConfig.SuccessInterval < 0]_vars
    /\ [][(pc = "run" /\ pc' # "run")
           => (DirectRun.pc = "returned" /\ pc' = "idle" /\ ret' = DirectRun.err)]_vars

\* Shutdown was called during a Start without periods; e.run, which has
\* invoked the task before, is at the check of its next iteration with a
\* context that is not cancelled.
C20_Witness ==
    /\ pc = "run"
    /\ stopCh = "closed"
    /\ DirectRun.pc = "check"
    /\ ~Done(DirectRun.ctx)
    /\ calls = MaxCalls - 1

====
